---------------------------- MODULE Spec2Model ----------------------------
(***************************************************************************)
(* Scene selection and acquisition pipeline of the Algal-Bloom-Detection   *)
(* download notebook: get_bounding_box, get_date_range, the two crop       *)
(* functions, select_best_image, the acquisition loop over                 *)
(* locations_to_get with its globals paths_dict and errored_ids, the cells *)
(* that list the saved images, write c20p-metadata.csv and remove the      *)
(* all-black images, and the training loop of make-predictions.ipynb with  *)
(* its checkpoint and early stopping.                                      *)
(*                                                                         *)
(* Coordinates are integers on a grid whose unit is 1000 m of arc, dates   *)
(* are day numbers, a datetime is a (day, hour) record, a raster is the    *)
(* flat sequence of its pixel values.  A STAC item is named by its id and  *)
(* its fields are read from the table Scene.                               *)
(***************************************************************************)
EXTENDS Integers, Sequences, FiniteSets, TLC

VARIABLES
    locations_to_get,  \* the metadata rows, in iteration order
    idx,               \* number of rows the for loop has consumed
    row,               \* the loop variable
    pc,                \* position inside the cell
    store,             \* IMAGE_DIR: uid -> pixels of <uid>.png, for the files that exist
    paths_dict,        \* uid -> image_pth
    errored_ids,       \* list of uids
    items,             \* kernel global: result of the last catalog search
    best_item,         \* kernel global (loop-carried)
    item_platform,     \* kernel global (loop-carried)
    item_date,         \* kernel global (loop-carried)
    image_array,       \* kernel global: last extracted array
    mode,              \* which execution of the cell this is
    imgs,              \* kernel global: the listing of IMAGE_DIR
    black_pngs,        \* kernel global: the names of the all-black files
    call,              \* a call of a helper function: its arguments and result
    numpy,             \* the numpy release that is installed
    saved,             \* kernel global: the frame written to c20p-metadata.csv
    best_loss,         \* make-predictions: the validation loss to beat
    counter,           \* make-predictions: epochs without improvement
    epoch,             \* make-predictions: the loop variable
    checkpoint,        \* make-predictions: the content of checkpoint.pt
    hist               \* history of the run, read by the properties only

\* the globals of the kernel of make-predictions.ipynb
train_vars == <<best_loss, counter, epoch, checkpoint>>

vars == <<locations_to_get, idx, row, pc, store, paths_dict, errored_ids, items,
          best_item, item_platform, item_date, image_array, mode, imgs, black_pngs, call,
          numpy, saved, train_vars, hist>>

---------------------------------------------------------------------------
(* Bounds of the model *)

NumSamples == 2
MaxItems == 2

---------------------------------------------------------------------------
(* Python values *)

\* a name that was never assigned in the kernel: reading it raises NameError
Unbound == "<unbound>"
\* the Python value None
None == [type |-> "NoneType"]
\* np.nan, a float: it has no .lower() and `x is np.nan` is true of it
nan == "nan"

Max(S) == CHOOSE x \in S : \A y \in S : y <= x
Min(S) == CHOOSE x \in S : \A y \in S : x <= y

RECURSIVE SumSeq(_)
SumSeq(s) == IF s = <<>> THEN 0 ELSE Head(s) + SumSeq(Tail(s))

\* str.lower() on the characters that occur in platform names
lower(chars) ==
    [i \in 1..Len(chars) |->
        CASE chars[i] = "S" -> "s"
          [] chars[i] = "A" -> "a"
          [] chars[i] = "B" -> "b"
          [] OTHER -> chars[i]]

\* `sub in s` for strings given as character sequences
str_contains(s, sub) ==
    \E k \in 0..(Len(s) - Len(sub)) :
        \A j \in 1..Len(sub) : s[k + j] = sub[j]

sentinel_chars == <<"s", "e", "n", "t", "i", "n", "e", "l">>

\* the platform names the search admits, as character sequences
PlatformChars(p) ==
    CASE p = "Sentinel-2A" -> <<"S", "e", "n", "t", "i", "n", "e", "l", "-", "2", "A">>
      [] p = "Sentinel-2B" -> <<"S", "e", "n", "t", "i", "n", "e", "l", "-", "2", "B">>
      [] p = "landsat-8"   -> <<"l", "a", "n", "d", "s", "a", "t", "-", "8">>
      [] p = "landsat-9"   -> <<"l", "a", "n", "d", "s", "a", "t", "-", "9">>

Platforms == {"Sentinel-2A", "Sentinel-2B", "landsat-8", "landsat-9"}

---------------------------------------------------------------------------
(* The scenes the catalog can hold.  bbox is [min_long, min_lat, max_long,   *)
(* max_lat]; pixels is what the asset holds inside the footprint (8-bit for  *)
(* the Sentinel visual asset, raw 16-bit band values for Landsat).           *)

Scene ==
    [ S2A_old  |-> [platform |-> "Sentinel-2A", datetime |-> [day |-> 10, hour |-> 10],
                    bbox |-> <<0, 0, 10, 10>>, pixels |-> <<0, 90, 200, 10, 80, 190>>],
      L8_new   |-> [platform |-> "landsat-8", datetime |-> [day |-> 18, hour |-> 16],
                    bbox |-> <<2, 2, 12, 12>>, pixels |-> <<7000, 9000, 12000, 7500, 9500, 11000>>],
      S2B_edge |-> [platform |-> "Sentinel-2B", datetime |-> [day |-> 15, hour |-> 11],
                    bbox |-> <<5, 0, 15, 10>>, pixels |-> <<30, 40, 50, 31, 41, 64>>],
      L9_dark  |-> [platform |-> "landsat-9", datetime |-> [day |-> 19, hour |-> 17],
                    bbox |-> <<0, 0, 10, 10>>, pixels |-> <<0, 0, 0, 0, 0, 0>>],
      L8_far   |-> [platform |-> "landsat-8", datetime |-> [day |-> 12, hour |-> 16],
                    bbox |-> <<45, 45, 55, 55>>, pixels |-> <<5000, 5000, 8000, 5100, 5200, 8100>>],
      L9_late  |-> [platform |-> "landsat-9", datetime |-> [day |-> 25, hour |-> 17],
                    bbox |-> <<0, 0, 10, 10>>, pixels |-> <<6000, 7000, 8000, 6000, 7000, 8000>>],
      S2A_tie  |-> [platform |-> "Sentinel-2A", datetime |-> [day |-> 3, hour |-> 10],
                    bbox |-> <<0, 0, 10, 10>>, pixels |-> <<10, 20, 30, 11, 21, 31>>],
      S2B_tie  |-> [platform |-> "Sentinel-2B", datetime |-> [day |-> 3, hour |-> 21],
                    bbox |-> <<1, 1, 11, 11>>, pixels |-> <<40, 50, 60, 41, 51, 61>>] ]

SceneIds == DOMAIN Scene

\* the order in which the catalog lists its scenes
SceneOrder ==
    <<"S2A_old", "L8_new", "S2B_edge", "L9_dark", "L8_far", "L9_late", "S2A_tie", "S2B_tie">>

\* sequences over S without repetition, of length at most n
RECURSIVE SeqsUpTo(_, _)
SeqsUpTo(S, n) ==
    IF n = 0 THEN {<<>>}
    ELSE LET shorter == SeqsUpTo(S, n - 1)
         IN  shorter \cup
             {Append(p[1], p[2]) :
                 p \in {q \in shorter \X S :
                          /\ Len(q[1]) = n - 1
                          /\ \A i \in 1..Len(q[1]) : q[1][i] # q[2]}}

\* the subsequences of s (order kept)
RECURSIVE SubSeqs(_)
SubSeqs(s) ==
    IF s = <<>> THEN {<<>>}
    ELSE LET rest == SubSeqs(Tail(s))
         IN  rest \cup {<<Head(s)>> \o t : t \in rest}

---------------------------------------------------------------------------
(* metadata.csv: uid, latitude, longitude, date (a Timestamp at midnight)  *)

UidOrder == <<"aabm", "aabn", "aacd">>

metadata ==
    [ aabm |-> [uid |-> "aabm", latitude |-> 5,  longitude |-> 5,  date |-> 20],
      aabn |-> [uid |-> "aabn", latitude |-> 6,  longitude |-> 6,  date |-> 22],
      aacd |-> [uid |-> "aacd", latitude |-> 50, longitude |-> 50, date |-> 20] ]

Uids == {UidOrder[i] : i \in 1..NumSamples}

---------------------------------------------------------------------------
(* Helper functions *)

Ok(v) == [raised |-> FALSE, exc |-> "", value |-> v]
Raises(e) == [raised |-> TRUE, exc |-> e, value |-> <<>>]

\* geopy normalises a longitude into [-180, 180); 1 degree is 111 grid units
normalize_longitude(x) == ((x + 180 * 111) % (360 * 111)) - 180 * 111

\* geopy.distance(...).destination(point, bearing): the point d units away
\* along one of the four cardinal bearings; a path over a pole comes back
\* down the opposite meridian
destination(latitude, longitude, bearing, d) ==
    LET pole == 90 * 111
        north == latitude + d
        south == latitude - d
        along(lat) ==
            IF lat > pole
            THEN [latitude |-> 2 * pole - lat,
                  longitude |-> normalize_longitude(longitude + 180 * 111)]
            ELSE IF lat < -pole
            THEN [latitude |-> -2 * pole - lat,
                  longitude |-> normalize_longitude(longitude + 180 * 111)]
            ELSE [latitude |-> lat, longitude |-> longitude]
    IN  CASE bearing = 0 -> along(north)
          [] bearing = 180 -> along(south)
          [] bearing = 90 ->
               [latitude |-> latitude, longitude |-> normalize_longitude(longitude + d)]
          [] bearing = 270 ->
               [latitude |-> latitude, longitude |-> normalize_longitude(longitude - d)]

get_bounding_box(latitute, longitude, meter_buffer) ==
    LET distance_search == meter_buffer \div 1000
        min_lat == destination(latitute, longitude, 180, distance_search).latitude
        min_long == destination(latitute, longitude, 270, distance_search).longitude
        max_lat == destination(latitute, longitude, 0, distance_search).latitude
        max_long == destination(latitute, longitude, 90, distance_search).longitude
    IN  IF latitute < -90 * 111 \/ latitute > 90 * 111
        THEN Raises("ValueError")
        ELSE Ok(<<min_long, min_lat, max_long, max_lat>>)

\* the days a date string can name
Days == 0..40

\* "%Y-%m-%d": the date as a string, the time of day dropped
strftime(datetime) == ToString(datetime.day)

\* pd.to_datetime of a date string: midnight of the day it names
to_datetime(s) == CHOOSE d \in Days : ToString(d) = s

\* the date range "start/end", as the pair of its two formatted dates
get_date_range_forward(date, time_buffer_days) ==
    <<strftime([day |-> date, hour |-> 0]),
      strftime([day |-> date + time_buffer_days, hour |-> 0])>>
get_date_range(date, time_buffer_days) ==
    LET range_start == date - time_buffer_days
    IN  <<strftime([day |-> range_start, hour |-> 0]),
          strftime([day |-> date, hour |-> 0])>>

boxes_intersect(a, b) ==
    /\ a[1] <= b[3] /\ b[1] <= a[3]
    /\ a[2] <= b[4] /\ b[2] <= a[4]

\* np.transpose(image_array, axes=[1, 2, 0]) on a flat channel-first raster
\* of 3 channels: pixel p, channel c of the result is channel c, pixel p
transpose_hwc(a) ==
    LET n == Len(a) \div 3
    IN  [k \in 1..Len(a) |-> a[((k - 1) % 3) * n + ((k - 1) \div 3) + 1]]

\* round to nearest, halves to even (cvRound)
cvRound(num, den) ==
    LET q == num \div den
        r == num % den
    IN  IF 2 * r < den THEN q
        ELSE IF 2 * r > den THEN q + 1
        ELSE IF q % 2 = 0 THEN q ELSE q + 1

\* cv2.normalize(a, None, 0, 255, cv2.NORM_MINMAX, dtype=cv2.CV_8U)
cv2_normalize(a) ==
    LET vals == {a[i] : i \in 1..Len(a)}
        smin == Min(vals)
        smax == Max(vals)
    IN  [i \in 1..Len(a) |->
            IF smax = smin THEN 0 ELSE cvRound((a[i] - smin) * 255, smax - smin)]

\* href_ok: whether the asset could be opened over the network
crop_sentinel_image(item, bounding_box, href_ok) ==
    IF ~href_ok THEN Raises("RasterioIOError")
    ELSE IF ~boxes_intersect(Scene[item].bbox, bounding_box)
    THEN Raises("NoDataInBounds")
    ELSE Ok(Scene[item].pixels)

crop_landsat_image(item, bounding_box, href_ok) ==
    IF ~href_ok THEN Raises("RasterioIOError")
    ELSE LET bands ==
                 IF boxes_intersect(Scene[item].bbox, bounding_box)
                 THEN Scene[item].pixels
                 ELSE [i \in 1..Len(Scene[item].pixels) |-> 0]
         IN  Ok(cv2_normalize(bands))

---------------------------------------------------------------------------
(* select_best_image *)

\* the DataFrame of item details, one row per item, in the order of the items
item_details(stac_items) ==
    [i \in 1..Len(stac_items) |->
        [datetime |-> strftime(Scene[stac_items[i]].datetime),
         platform |-> Scene[stac_items[i]].platform,
         min_long |-> Scene[stac_items[i]].bbox[1],
         max_long |-> Scene[stac_items[i]].bbox[3],
         min_lat  |-> Scene[stac_items[i]].bbox[2],
         max_lat  |-> Scene[stac_items[i]].bbox[4],
         item_obj |-> stac_items[i]]]

contains_sample_point_closed(d, latitude, longitude) ==
    /\ d.min_lat <= latitude
    /\ d.max_lat >= latitude
    /\ d.min_long <= longitude
    /\ d.max_long >= longitude
contains_sample_point(d, latitude, longitude) ==
    /\ d.min_lat < latitude
    /\ d.max_lat > latitude
    /\ d.min_long < longitude
    /\ d.max_long > longitude

\* pd.to_datetime(date) - pd.to_datetime(item_details["datetime"]), in days
time_diff_reversed(d, date) == to_datetime(d.datetime) - date
time_diff(d, date) == date - to_datetime(d.datetime)

sentinel(d) == str_contains(lower(PlatformChars(d.platform)), sentinel_chars)

\* the rows that contain the sample point
filter_contains(details, latitude, longitude) ==
    SelectSeq(details, LAMBDA d : contains_sample_point(d, latitude, longitude))

\* if we have sentinel-2, filter to sentinel-2 images only
filter_sentinel_no_preference(details) == details
filter_sentinel(details) ==
    IF \E i \in 1..Len(details) : sentinel(details[i])
    THEN SelectSeq(details, sentinel)
    ELSE details

\* sort_values(by="time_diff", ascending=True).iloc[0]: a row of least
\* time_diff; the sort is not stable, so any of the tied rows can come first
first_by_time_diff_unsorted(details, date) == {details[1]}
first_by_time_diff(details, date) ==
    {details[i] : i \in {j \in 1..Len(details) :
        \A k \in 1..Len(details) : time_diff(details[j], date) <= time_diff(details[k], date)}}

\* the outcomes of a call: the returned tuples, or the exception raised.
\* pd.DataFrame([]) has no columns, so item_details.min_lat raises
select_best_image_family_first(stac_items, date, latitude, longitude) ==
    IF Len(stac_items) = 0 THEN {Raises("AttributeError")}
    ELSE LET kept == filter_contains(filter_sentinel(item_details(stac_items)),
                                     latitude, longitude)
         IN  IF Len(kept) = 0 THEN {Ok(<<nan, nan, nan>>)}
             ELSE {Ok(<<b.item_obj, b.platform, b.datetime>>) :
                      b \in first_by_time_diff(kept, date)}

\* (item_details is reassigned after each filter: containing and kept are
\* its two successive values, each computed once)
select_best_image(stac_items, date, latitude, longitude) ==
    IF Len(stac_items) = 0 THEN {Raises("AttributeError")}
    ELSE UNION {
           IF Len(containing) = 0 THEN {Ok(<<nan, nan, nan>>)}
           ELSE UNION {
                  {Ok(<<b.item_obj, b.platform, b.datetime>>) :
                      b \in first_by_time_diff(kept, date)}
                  : kept \in {filter_sentinel(containing)}}
           : containing \in {filter_contains(item_details(stac_items),
                                              latitude, longitude)}}

---------------------------------------------------------------------------
(* The catalog and the output store, as the cell sees them *)

\* catalog.search(...).get_items(): the call fails, or it returns scenes that
\* intersect bbox and were captured within the date range, as the catalog
\* lists them (any of them can be missing: the cloud cover filter)
CatalogResponses(bbox, datetime) ==
    LET matching ==
            SelectSeq(SceneOrder,
                      LAMBDA s : /\ boxes_intersect(Scene[s].bbox, bbox)
                                 /\ to_datetime(datetime[1]) <= Scene[s].datetime.day
                                 /\ Scene[s].datetime.day <= to_datetime(datetime[2])
                                 /\ Scene[s].platform \in Platforms)
    IN  {[status |-> "unavailable", items |-> <<>>]} \cup
        {[status |-> "ok", items |-> its] : its \in SubSeqs(matching)}

\* image_pth = IMAGE_DIR / f"{row.uid}.png", named by its stem
image_pth_shared(uid) == "image"
image_pth(uid) == uid

exists_never(pth) == FALSE
exists(pth) == pth \in DOMAIN store

\* the releases of numpy the notebook runs on: the import is not pinned
NumpyReleases == {"1.x", "2.x"}

\* the builtin sum over the uint8 elements of an array, from the int 0.  With
\* numpy 1.x the int 0 makes the first addition an int64 and the total is
\* exact; from numpy 2 on the Python int adapts to the uint8 element, the
\* accumulator is a uint8 and every addition wraps modulo 2^8
python_sum(a) == IF numpy = "2.x" THEN SumSeq(a) % (2 ^ 8) ELSE SumSeq(a)

\* sum(image_array.flatten()) == 0
is_black_never(a) == FALSE
is_black(a) == python_sum(a) = 0

\* the bare `except:` clause catches every exception
caught_no_lookup_errors(exc) == exc \notin {"NameError", "AttributeError"}
caught(exc) == TRUE

\* a file that was in IMAGE_DIR before the cell ran: a picture (its pixel
\* values add up to 2^8), or all black
PriorFiles == {<<12, 34, 56, 13, 35, 106>>, <<0, 0, 0, 0, 0, 0>>}

NoResponse == [status |-> "none", items |-> <<>>]

\* no stop was requested
NoStop == [at |-> "none", uid |-> "none", idx |-> 0]

\* no helper function is being called
NoCall == [fn |-> "none", args |-> <<>>, result |-> Unbound]

\* the history of a run that has not started
NewHist(first, store0) ==
    [outcome  |-> [u \in Uids |-> "Pending"],
     source   |-> [u \in Uids |-> "none"],
     response |-> [u \in Uids |-> NoResponse],
     selected |-> [u \in Uids |-> "none"],
     href     |-> [u \in Uids |-> "none"],
     extracted |-> [u \in Uids |-> <<>>],
     searched |-> {},
     fetched  |-> {},
     written  |-> {},
     error    |-> [u \in Uids |-> "none"],
     stopped  |-> NoStop,
     scrubs   |-> 0,
     removed  |-> <<>>,
     before   |-> <<>>,
     val_losses |-> <<>>,
     store0   |-> store0,
     first    |-> first]

NoFirst == [outcome |-> <<>>, source |-> <<>>, response |-> <<>>,
            selected |-> <<>>, href |-> <<>>, errored |-> <<>>, paths |-> <<>>]

---------------------------------------------------------------------------
(* The acquisition cell *)

Init ==
    /\ locations_to_get = [i \in 1..NumSamples |-> metadata[UidOrder[i]]]
    /\ idx = 0
    /\ row = metadata[UidOrder[1]]
    /\ pc = "for"
    /\ \E present \in SUBSET Uids : store \in [present -> PriorFiles]
    /\ paths_dict = <<>>
    /\ errored_ids = <<>>
    /\ items = <<>>
    /\ best_item = Unbound
    /\ item_platform = Unbound
    /\ item_date = Unbound
    /\ image_array = <<>>
    /\ mode = "first"
    /\ imgs = Unbound
    /\ black_pngs = Unbound
    /\ call = NoCall
    /\ numpy \in NumpyReleases
    /\ saved = Unbound
    /\ best_loss = Unbound
    /\ counter = 0
    /\ epoch = Unbound
    /\ checkpoint = None
    /\ hist = NewHist(NoFirst, store)

\* d with d[k] = v, k added to its keys when new
DictSet(d, k, v) == [x \in DOMAIN d \cup {k} |-> IF x = k THEN v ELSE d[x]]

\* an exception raised inside the try block, with h the history so far
Raise_twice(exc, h) ==
    /\ errored_ids' = Append(Append(errored_ids, row.uid), row.uid)
    /\ pc' = "for"
    /\ hist' = [h EXCEPT !.outcome[row.uid] = "Failed", !.error[row.uid] = exc]
Raise(exc, h) ==
    IF caught(exc)
    THEN /\ errored_ids' = Append(errored_ids, row.uid)
         /\ pc' = "for"
         /\ hist' = [h EXCEPT !.outcome[row.uid] = "Failed", !.error[row.uid] = exc]
    ELSE /\ pc' = "raised"
         /\ hist' = [h EXCEPT !.error[row.uid] = exc]
         /\ UNCHANGED errored_ids

\* for row in locations_to_get.itertuples(): image_pth exists
CacheHit ==
    /\ pc = "for"
    /\ idx < Len(locations_to_get)
    /\ exists(image_pth(locations_to_get[idx + 1].uid))
    /\ row' = locations_to_get[idx + 1]
    /\ idx' = idx + 1
    /\ paths_dict' = DictSet(paths_dict, row'.uid, image_pth(row'.uid))
    /\ hist' = [hist EXCEPT !.outcome[row'.uid] = "Skipped"]
    /\ UNCHANGED <<locations_to_get, pc, store, errored_ids, items, best_item,
                   item_platform, item_date, image_array, mode, imgs, black_pngs, call,
                   numpy, saved, train_vars>>

\* for row in locations_to_get.itertuples(): image_pth does not exist
EnterTry ==
    /\ pc = "for"
    /\ idx < Len(locations_to_get)
    /\ ~exists(image_pth(locations_to_get[idx + 1].uid))
    /\ row' = locations_to_get[idx + 1]
    /\ idx' = idx + 1
    /\ pc' = "query"
    /\ UNCHANGED <<locations_to_get, store, paths_dict, errored_ids, items, best_item,
                   item_platform, item_date, image_array, mode, imgs, black_pngs, call,
                   numpy, saved, train_vars, hist>>

\* the responses a replayed run gets are those of the first run
SameResponse(field, value) ==
    (mode = "reorder" /\ hist.first[field][row.uid] # "none")
        => value = hist.first[field][row.uid]

\* QUERY PLANETARY COMPUTER
Query ==
    /\ pc = "query"
    /\ LET search_bbox == get_bounding_box(row.latitude, row.longitude, 1000)
           search_date_range == get_date_range(row.date, 15)
       IN  IF search_bbox.raised
           THEN Raise(search_bbox.exc, hist) /\ UNCHANGED items
           ELSE \E search_results \in CatalogResponses(search_bbox.value, search_date_range) :
                  /\ (mode = "reorder" /\ hist.first.response[row.uid].status # "none")
                        => search_results = hist.first.response[row.uid]
                  /\ LET h == [hist EXCEPT !.searched = @ \cup {row.uid},
                                           !.response[row.uid] = search_results]
                     IN  IF search_results.status = "unavailable"
                         THEN Raise("APIError", h) /\ UNCHANGED items
                         ELSE /\ items' = search_results.items
                              /\ pc' = "select"
                              /\ hist' = h
                              /\ UNCHANGED errored_ids
    /\ UNCHANGED <<locations_to_get, idx, row, store, paths_dict, best_item,
                   item_platform, item_date, image_array, mode, imgs, black_pngs, call,
                   numpy, saved, train_vars>>

\* GET BEST IMAGE
GetBestImage ==
    /\ pc = "select"
    /\ IF Len(items) = 0
       THEN /\ pc' = "save"
            /\ UNCHANGED <<best_item, item_platform, item_date, errored_ids, hist>>
       ELSE \E r \in select_best_image(items, row.date, row.latitude, row.longitude) :
              IF r.raised
              THEN /\ Raise(r.exc, hist)
                   /\ UNCHANGED <<best_item, item_platform, item_date>>
              ELSE /\ SameResponse("selected", r.value[1])
                   /\ best_item' = r.value[1]
                   /\ item_platform' = r.value[2]
                   /\ item_date' = r.value[3]
                   /\ LET h == [hist EXCEPT !.selected[row.uid] = r.value[1]]
                      IN  IF r.value[1] = nan
                          THEN Raise("Exception", h)
                          ELSE /\ pc' = "save"
                               /\ hist' = h
                               /\ UNCHANGED errored_ids
    /\ UNCHANGED <<locations_to_get, idx, row, store, paths_dict, items,
                   image_array, mode, imgs, black_pngs, call,
                   numpy, saved, train_vars>>

\* SAVE IMAGE DATA: the bounding box and the crop
CropImage ==
    /\ pc = "save"
    /\ LET save_bbox == get_bounding_box(row.latitude, row.longitude, 1000)
       IN  IF save_bbox.raised
           THEN Raise(save_bbox.exc, hist) /\ UNCHANGED image_array
           ELSE IF item_platform = Unbound
           THEN Raise("NameError", hist) /\ UNCHANGED image_array
           ELSE IF item_platform = nan
           THEN Raise("AttributeError", hist) /\ UNCHANGED image_array
           ELSE \E href_ok \in BOOLEAN :
                  /\ SameResponse("href", IF href_ok THEN "ok" ELSE "failed")
                  /\ LET cropped ==
                             IF str_contains(lower(PlatformChars(item_platform)),
                                             sentinel_chars)
                             THEN crop_sentinel_image(best_item, save_bbox.value, href_ok)
                             ELSE crop_landsat_image(best_item, save_bbox.value, href_ok)
                         h == [hist EXCEPT !.fetched = @ \cup {row.uid},
                                           !.href[row.uid] =
                                               IF href_ok THEN "ok" ELSE "failed"]
                     IN  IF cropped.raised
                         THEN Raise(cropped.exc, h) /\ UNCHANGED image_array
                         ELSE /\ image_array' = cropped.value
                              /\ pc' = "check"
                              /\ hist' = [h EXCEPT !.extracted[row.uid] = cropped.value]
                              /\ UNCHANGED errored_ids
    /\ UNCHANGED <<locations_to_get, idx, row, store, paths_dict, items, best_item,
                   item_platform, item_date, mode, imgs, black_pngs, call,
                   numpy, saved, train_vars>>

\* SAVE IMAGE DATA: the black image check, image.save and paths_dict
SaveImage ==
    /\ pc = "check"
    /\ IF is_black(image_array)
       THEN Raise("Exception", hist) /\ UNCHANGED <<store, paths_dict>>
       ELSE /\ store' = DictSet(store, image_pth(row.uid), transpose_hwc(image_array))
            /\ paths_dict' = DictSet(paths_dict, row.uid, image_pth(row.uid))
            /\ pc' = "for"
            /\ hist' = [hist EXCEPT !.outcome[row.uid] = "Persisted",
                                    !.source[row.uid] = best_item,
                                    !.written = @ \cup {row.uid}]
            /\ UNCHANGED errored_ids
    /\ UNCHANGED <<locations_to_get, idx, row, items, best_item, item_platform,
                   item_date, image_array, mode, imgs, black_pngs, call,
                   numpy, saved, train_vars>>

\* the for loop is exhausted
EndLoop ==
    /\ pc = "for"
    /\ idx = Len(locations_to_get)
    /\ pc' = "done"
    /\ UNCHANGED <<locations_to_get, idx, row, store, paths_dict, errored_ids, items,
                   best_item, item_platform, item_date, image_array, mode, imgs, black_pngs, call,
                   numpy, saved, train_vars, hist>>

Next ==
    \/ CacheHit
    \/ EnterTry
    \/ Query
    \/ GetBestImage
    \/ CropImage
    \/ SaveImage
    \/ EndLoop

Spec == Init /\ [][Next]_vars

---------------------------------------------------------------------------
(* The cell run a second time in the same session or after a restart of   *)
(* the kernel, on the store the first run left                            *)

FirstRun ==
    [outcome |-> hist.outcome, source |-> hist.source, response |-> hist.response,
     selected |-> hist.selected, href |-> hist.href, errored |-> errored_ids,
     paths |-> paths_dict]

Rerun ==
    /\ pc = "done"
    /\ mode = "first"
    /\ mode' = "rerun"
    /\ pc' = "for"
    /\ idx' = 0
    /\ paths_dict' = <<>>
    /\ errored_ids' = <<>>
    /\ \E restarted \in BOOLEAN :
         IF restarted
         THEN /\ best_item' = Unbound
              /\ item_platform' = Unbound
              /\ item_date' = Unbound
              /\ items' = <<>>
              /\ image_array' = <<>>
         ELSE UNCHANGED <<best_item, item_platform, item_date, items, image_array>>
    /\ hist' = NewHist([NoFirst EXCEPT !.outcome = hist.outcome,
                                       !.errored = errored_ids,
                                       !.paths = paths_dict], store)
    /\ UNCHANGED <<locations_to_get, row, store, imgs, black_pngs, call,
                   numpy, saved, train_vars>>

RerunNext == Next \/ Rerun

RerunSpec == Init /\ [][RerunNext]_vars

---------------------------------------------------------------------------
(* The same samples processed in another order: a fresh kernel, the store *)
(* as it was before the first run, and the catalog and the assets         *)
(* answering for each sample as they did in the first run                 *)

Orderings(seq) ==
    {p \in [1..Len(seq) -> {seq[i] : i \in 1..Len(seq)}] :
        \A i, j \in 1..Len(seq) : i # j => p[i] # p[j]}

Reorder ==
    /\ pc = "done"
    /\ mode = "first"
    /\ mode' = "reorder"
    /\ \E p \in Orderings(locations_to_get) \ {locations_to_get} :
         locations_to_get' = p
    /\ pc' = "for"
    /\ idx' = 0
    /\ store' = hist.store0
    /\ paths_dict' = <<>>
    /\ errored_ids' = <<>>
    /\ best_item' = Unbound
    /\ item_platform' = Unbound
    /\ item_date' = Unbound
    /\ items' = <<>>
    /\ image_array' = <<>>
    /\ hist' = NewHist(FirstRun, hist.store0)
    /\ UNCHANGED <<row, imgs, black_pngs, call,
                   numpy, saved, train_vars>>

ReorderNext == Next \/ Reorder

ReorderSpec == Init /\ [][ReorderNext]_vars

---------------------------------------------------------------------------
(* select_best_image called on its own: any candidates, any sample point  *)
(* of the metadata, any target date that is a sample's or a capture date  *)

SelDates ==
    {metadata[u].date : u \in DOMAIN metadata} \cup
    {Scene[s].datetime.day : s \in SceneIds}

SelInit ==
    /\ items \in SeqsUpTo(SceneIds, MaxItems)
    /\ row \in {[metadata[u] EXCEPT !.date = d] : u \in DOMAIN metadata, d \in SelDates}
    /\ pc = "call"
    /\ mode = "function"
    /\ best_item = Unbound
    /\ item_platform = Unbound
    /\ item_date = Unbound
    /\ locations_to_get = <<>>
    /\ idx = 0
    /\ store = <<>>
    /\ paths_dict = <<>>
    /\ errored_ids = <<>>
    /\ image_array = <<>>
    /\ imgs = Unbound
    /\ black_pngs = Unbound
    /\ call = NoCall
    /\ numpy \in NumpyReleases
    /\ saved = Unbound
    /\ best_loss = Unbound
    /\ counter = 0
    /\ epoch = Unbound
    /\ checkpoint = None
    /\ hist = NewHist(NoFirst, <<>>)

\* best_item, item_platform, item_date = select_best_image(items, row.date, ...)
CallSelect ==
    /\ pc = "call"
    /\ \E r \in select_best_image(items, row.date, row.latitude, row.longitude) :
         IF r.raised
         THEN /\ pc' = "raised"
              /\ UNCHANGED <<best_item, item_platform, item_date>>
         ELSE /\ pc' = "returned"
              /\ best_item' = r.value[1]
              /\ item_platform' = r.value[2]
              /\ item_date' = r.value[3]
    /\ UNCHANGED <<locations_to_get, idx, row, store, paths_dict, errored_ids, items,
                   image_array, mode, imgs, black_pngs, call,
                   numpy, saved, train_vars, hist>>

SelNext == CallSelect

SelSpec == SelInit /\ [][SelNext]_vars

---------------------------------------------------------------------------
(* The cells that list the saved images and remove the all-black files,   *)
(* run one after the other once the acquisition cell is over              *)

MaxScrubs == 2

\* the file the macOS file browser leaves in a folder it has shown
DS_Store == ".DS_Store"
\* its content: bytes that are not a picture
ds_store_bytes == <<"Bud1">>

\* os.listdir(IMAGE_DIR): the names of the files, in arbitrary order
os_listdir(files) ==
    IF DOMAIN files = {} THEN {<<>>}
    ELSE {p \in [1..Cardinality(DOMAIN files) -> DOMAIN files] :
            \A j, k \in 1..Cardinality(DOMAIN files) : j # k => p[j] # p[k]}

\* list.remove(x): the list without the first x, ValueError when x is not in it
list_remove(list, x) ==
    IF \A k \in 1..Len(list) : list[k] # x
    THEN Raises("ValueError")
    ELSE LET first == Min({k \in 1..Len(list) : list[k] = x})
         IN  Ok(SubSeq(list, 1, first - 1) \o SubSeq(list, first + 1, Len(list)))

\* np.array(Image.open(IMAGE_DIR / name))
Image_open(files, name) ==
    IF name \notin DOMAIN files THEN Raises("FileNotFoundError")
    ELSE IF files[name] = ds_store_bytes THEN Raises("UnidentifiedImageError")
    ELSE Ok(files[name])

\* the scan loop over the names still to visit, found being black_pngs so
\* far: the final black_pngs, or the exception together with black_pngs as
\* the loop left it
RECURSIVE scan_black_pngs(_, _, _)
scan_black_pngs(files, names, found) ==
    IF names = <<>> THEN Ok(found)
    ELSE LET im_arr == Image_open(files, Head(names))
         IN  IF im_arr.raised
             THEN [raised |-> TRUE, exc |-> im_arr.exc, value |-> found]
             ELSE scan_black_pngs(files, Tail(names),
                                  IF is_black(im_arr.value)
                                  THEN Append(found, Head(names))
                                  ELSE found)

\* os.remove(IMAGE_DIR / name)
os_remove_nothing(files, name) == Ok(files)
os_remove(files, name) ==
    IF name \notin DOMAIN files THEN Raises("FileNotFoundError")
    ELSE Ok([x \in DOMAIN files \ {name} |-> files[x]])

\* the removal loop over the names still to remove: the files left, or the
\* exception together with the files as the loop left them
RECURSIVE remove_black_pngs(_, _)
remove_black_pngs(files, names) ==
    IF names = <<>> THEN Ok(files)
    ELSE LET r == os_remove(files, Head(names))
         IN  IF r.raised
             THEN [raised |-> TRUE, exc |-> r.exc, value |-> files]
             ELSE remove_black_pngs(r.value, Tail(names))

\* the acquisition cell starts on a folder that the file browser has or has
\* not shown
ScrubInit ==
    /\ locations_to_get = [k \in 1..NumSamples |-> metadata[UidOrder[k]]]
    /\ idx = 0
    /\ row = metadata[UidOrder[1]]
    /\ pc = "for"
    /\ \E present \in SUBSET Uids, shown \in BOOLEAN :
         \E pngs \in [present -> PriorFiles] :
            store = IF shown THEN DictSet(pngs, DS_Store, ds_store_bytes) ELSE pngs
    /\ paths_dict = <<>>
    /\ errored_ids = <<>>
    /\ items = <<>>
    /\ best_item = Unbound
    /\ item_platform = Unbound
    /\ item_date = Unbound
    /\ image_array = <<>>
    /\ mode = "first"
    /\ imgs = Unbound
    /\ black_pngs = Unbound
    /\ call = NoCall
    /\ numpy \in NumpyReleases
    /\ saved = Unbound
    /\ best_loss = Unbound
    /\ counter = 0
    /\ epoch = Unbound
    /\ checkpoint = None
    /\ hist = NewHist(NoFirst, store)

\* imgs = os.listdir(IMAGE_DIR); imgs.remove('.DS_Store')
ListImages ==
    /\ pc \in {"done", "scrubbed"}
    /\ hist.scrubs < MaxScrubs
    /\ \E listing \in os_listdir(store) :
         LET r == list_remove(listing, DS_Store)
         IN  IF r.raised
             THEN /\ imgs' = listing
                  /\ pc' = "raised"
             ELSE /\ imgs' = r.value
                  /\ pc' = "listed"
    /\ hist' = [hist EXCEPT !.scrubs = @ + 1, !.removed = <<>>, !.before = store]
    /\ UNCHANGED <<locations_to_get, idx, row, store, paths_dict, errored_ids, items,
                   best_item, item_platform, item_date, image_array, mode,
                   black_pngs, call,
                   numpy, saved, train_vars>>

\* x.replace('.png', ''): the uid of the sample a file is named after
replace_png(name) ==
    IF \E u \in DOMAIN metadata : image_pth(u) = name
    THEN CHOOSE u \in DOMAIN metadata : image_pth(u) = name
    ELSE name

\* df.merge(metadata, how='left', left_on='uid', right_on='uid',
\* validate='1:1'): a row for every row of df, in the order of df, with the
\* columns of metadata where the uid is one of metadata; MergeError when a
\* uid occurs twice in df (the uids of metadata are unique)
merge(df) ==
    IF \E j, k \in 1..Len(df) : j # k /\ df[j] = df[k]
    THEN Raises("MergeError")
    ELSE Ok([k \in 1..Len(df) |->
               IF df[k] \in DOMAIN metadata THEN metadata[df[k]]
               ELSE [uid |-> df[k], latitude |-> nan, longitude |-> nan, date |-> nan]])

\* df = pd.DataFrame(imgs, columns=['uid']); df['uid'] = df['uid'].apply(...);
\* saved = df.merge(metadata, ...); saved.to_csv(DATA_DIR / 'c20p-metadata.csv'):
\* the file holds the rows of saved, and nothing rewrites it afterwards
SaveCsv ==
    /\ pc = "listed"
    /\ LET df == [k \in 1..Len(imgs) |-> replace_png(imgs[k])]
           r == merge(df)
       IN  IF r.raised
           THEN /\ pc' = "raised"
                /\ UNCHANGED saved
           ELSE /\ saved' = r.value
                /\ pc' = "csv"
    /\ UNCHANGED <<locations_to_get, idx, row, store, paths_dict, errored_ids, items,
                   best_item, item_platform, item_date, image_array, mode, imgs,
                   black_pngs, call, numpy, train_vars, hist>>

\* black_pngs = []; for i in imgs: ... black_pngs.append(i)
ScanBlack ==
    /\ pc = "csv"
    /\ LET r == scan_black_pngs(store, imgs, <<>>)
       IN  /\ black_pngs' = r.value
           /\ pc' = IF r.raised THEN "raised" ELSE "scanned"
    /\ UNCHANGED <<locations_to_get, idx, row, store, paths_dict, errored_ids, items,
                   best_item, item_platform, item_date, image_array, mode, imgs,
                   call,
                   numpy, saved, train_vars, hist>>

\* for i in black_pngs: os.remove(IMAGE_DIR / i)
RemoveBlack ==
    /\ pc = "scanned"
    /\ LET r == remove_black_pngs(store, black_pngs)
       IN  /\ store' = r.value
           /\ pc' = IF r.raised THEN "raised" ELSE "scrubbed"
           /\ hist' = [hist EXCEPT !.removed =
                          SelectSeq(black_pngs, LAMBDA n : n \notin DOMAIN r.value)]
    /\ UNCHANGED <<locations_to_get, idx, row, paths_dict, errored_ids, items,
                   best_item, item_platform, item_date, image_array, mode, imgs,
                   black_pngs, call,
                   numpy, saved, train_vars>>

ScrubNext == Next \/ ListImages \/ SaveCsv \/ ScanBlack \/ RemoveBlack

ScrubSpec == ScrubInit /\ [][ScrubNext]_vars

---------------------------------------------------------------------------
(* get_bounding_box and get_date_range called on their own                *)

MaxLookback == 15

\* latitudes and longitudes around the ends of their ranges (1 degree is 111
\* units) and inside them; buffers in meters
GeoLatitudes == {-90 * 111 - 1, -90 * 111, 0, 5, 90 * 111 - 1, 90 * 111, 90 * 111 + 1}
GeoLongitudes == {-180 * 111 - 1, -180 * 111, 0, 5, 180 * 111 - 1, 180 * 111, 180 * 111 + 1}
GeoBuffers == {-1000, 0, 1000, 2000, 50000}

GeoCalls ==
    {[fn |-> "get_bounding_box", args |-> <<lat, long, buffer>>, result |-> Unbound] :
        lat \in GeoLatitudes, long \in GeoLongitudes, buffer \in GeoBuffers}
    \cup
    {[fn |-> "get_date_range", args |-> <<d, n>>, result |-> Unbound] :
        d \in {x \in Days : x >= MaxLookback}, n \in 0..MaxLookback}

GeoInit ==
    /\ call \in GeoCalls
    /\ numpy \in NumpyReleases
    /\ saved = Unbound
    /\ best_loss = Unbound
    /\ counter = 0
    /\ epoch = Unbound
    /\ checkpoint = None
    /\ pc = "call"
    /\ mode = "function"
    /\ items = <<>>
    /\ row = metadata[UidOrder[1]]
    /\ best_item = Unbound
    /\ item_platform = Unbound
    /\ item_date = Unbound
    /\ locations_to_get = <<>>
    /\ idx = 0
    /\ store = <<>>
    /\ paths_dict = <<>>
    /\ errored_ids = <<>>
    /\ image_array = <<>>
    /\ imgs = Unbound
    /\ black_pngs = Unbound
    /\ hist = NewHist(NoFirst, <<>>)

\* get_bounding_box(latitude, longitude, meter_buffer=...)
CallGetBoundingBox ==
    /\ pc = "call"
    /\ call.fn = "get_bounding_box"
    /\ LET r == get_bounding_box(call.args[1], call.args[2], call.args[3])
       IN  /\ call' = [call EXCEPT !.result = r]
           /\ pc' = IF r.raised THEN "raised" ELSE "returned"
    /\ UNCHANGED <<locations_to_get, idx, row, store, paths_dict, errored_ids, items,
                   best_item, item_platform, item_date, image_array, mode, imgs,
                   black_pngs,
                   numpy, saved, train_vars, hist>>

\* get_date_range(date, time_buffer_days=...)
CallGetDateRange ==
    /\ pc = "call"
    /\ call.fn = "get_date_range"
    /\ call' = [call EXCEPT !.result = Ok(get_date_range(call.args[1], call.args[2]))]
    /\ pc' = "returned"
    /\ UNCHANGED <<locations_to_get, idx, row, store, paths_dict, errored_ids, items,
                   best_item, item_platform, item_date, image_array, mode, imgs,
                   black_pngs,
                   numpy, saved, train_vars, hist>>

GeoNext == CallGetBoundingBox \/ CallGetDateRange

GeoSpec == GeoInit /\ [][GeoNext]_vars

---------------------------------------------------------------------------
(* The acquisition cell on a metadata.csv in which any of the rows can    *)
(* carry a latitude that is out of range                                  *)

BadLatitude == 91 * 111

BadRowInit ==
    /\ \E bad \in SUBSET Uids :
         locations_to_get =
             [k \in 1..NumSamples |->
                 IF UidOrder[k] \in bad
                 THEN [metadata[UidOrder[k]] EXCEPT !.latitude = BadLatitude]
                 ELSE metadata[UidOrder[k]]]
    /\ idx = 0
    /\ row = metadata[UidOrder[1]]
    /\ pc = "for"
    /\ \E present \in SUBSET Uids : store \in [present -> PriorFiles]
    /\ paths_dict = <<>>
    /\ errored_ids = <<>>
    /\ items = <<>>
    /\ best_item = Unbound
    /\ item_platform = Unbound
    /\ item_date = Unbound
    /\ image_array = <<>>
    /\ mode = "first"
    /\ imgs = Unbound
    /\ black_pngs = Unbound
    /\ call = NoCall
    /\ numpy \in NumpyReleases
    /\ saved = Unbound
    /\ best_loss = Unbound
    /\ counter = 0
    /\ epoch = Unbound
    /\ checkpoint = None
    /\ hist = NewHist(NoFirst, store)

BadRowSpec == BadRowInit /\ [][Next]_vars

---------------------------------------------------------------------------
(* The acquisition cell with a stop requested by the user while it runs:  *)
(* the kernel raises KeyboardInterrupt in the statement being executed    *)

\* what image.save has put on disk when it is interrupted: the file not yet
\* created, or created and written up to some byte
interrupted_save(files, pth, content) ==
    {files} \cup {DictSet(files, pth, SubSeq(content, 1, k)) : k \in 0..(Len(content) - 1)}

KeyboardInterrupt ==
    /\ hist.stopped = NoStop
    /\ pc \in {"for", "query", "select", "save", "check"}
    /\ LET h == [hist EXCEPT !.stopped = [at |-> pc, uid |-> row.uid, idx |-> idx]]
       IN  IF pc = "for"
           THEN \* outside the try block: the exception leaves the cell
                /\ idx < Len(locations_to_get)
                /\ pc' = "raised"
                /\ hist' = [h EXCEPT !.stopped.uid = "none"]
                /\ UNCHANGED <<store, errored_ids>>
           ELSE /\ Raise("KeyboardInterrupt", h)
                /\ IF pc = "check" /\ ~is_black(image_array)
                   THEN store' \in interrupted_save(store, image_pth(row.uid),
                                                    transpose_hwc(image_array))
                   ELSE UNCHANGED store
    /\ UNCHANGED <<locations_to_get, idx, row, paths_dict, items, best_item,
                   item_platform, item_date, image_array, mode, imgs, black_pngs, call,
                   numpy, saved, train_vars>>

StopNext == Next \/ KeyboardInterrupt

StopSpec == Init /\ [][StopNext]_vars

---------------------------------------------------------------------------
(* Properties *)

\* the rows the for loop has reached
Visited(u) == \E i \in 1..idx : locations_to_get[i].uid = u

\* the sample's iteration is over
Finished(u) == hist.outcome[u] # "Pending"

AllZero(a) == \A i \in 1..Len(a) : a[i] = 0

SentinelFamily == {"Sentinel-2A", "Sentinel-2B"}

\* the point of row r lies strictly inside the bounding box of scene s
PointInScene(s, r) ==
    /\ Scene[s].bbox[2] < r.latitude /\ r.latitude < Scene[s].bbox[4]
    /\ Scene[s].bbox[1] < r.longitude /\ r.longitude < Scene[s].bbox[3]

Candidates == {items[i] : i \in 1..Len(items)}
Containing == {s \in Candidates : PointInScene(s, row)}
\* what is left after the containment filter and the family preference
Remaining ==
    IF \E s \in Containing : Scene[s].platform \in SentinelFamily
    THEN {s \in Containing : Scene[s].platform \in SentinelFamily}
    ELSE Containing

\* C1: a sample without a file whose search returned no candidate, or for
\* which select_best_image returned the empty result, ends as Failed and no
\* file is written for it, wherever it stands in the sample sequence.
C1_NoSceneMeansFailed ==
    \A u \in Uids :
        ( /\ Finished(u)
          /\ hist.response[u].status = "ok"
          /\ (Len(hist.response[u].items) = 0 \/ hist.selected[u] = nan) )
        => ( /\ hist.outcome[u] = "Failed"
             /\ u \notin hist.written
             /\ u \notin DOMAIN store )

\* C2: when a Sentinel candidate contains the target point, the scene
\* select_best_image returns is a Sentinel scene, whatever the capture dates.
C2_SentinelPreferred ==
    ( /\ pc \in {"returned", "raised"}
      /\ \E s \in Containing : Scene[s].platform \in SentinelFamily )
    => ( /\ pc = "returned"
         /\ best_item \in Candidates
         /\ item_platform \in SentinelFamily
         /\ Scene[best_item].platform \in SentinelFamily )

\* a call that returned the older Sentinel scene although a Landsat scene
\* that contains the point is closer to the target date
C2_Witness ==
    /\ pc = "returned"
    /\ best_item = "S2A_old"
    /\ "L8_new" \in Containing
    /\ Scene["L8_new"].datetime.day <= row.date
    /\ Scene["L8_new"].datetime.day > Scene["S2A_old"].datetime.day

\* C3: the capture date select_best_image returns is the latest capture date
\* that is not after the target date, among the candidates left by the
\* containment filter and the family preference.
C3_ClosestPrior ==
    (pc = "returned" /\ best_item # nan)
    => ( /\ Scene[best_item].datetime.day <= row.date
         /\ item_date = ToString(Max({Scene[s].datetime.day : s \in
                               {t \in Remaining : Scene[t].datetime.day <= row.date}})) )

\* C4: the containment filter precedes the family preference: when the
\* candidates that contain the point are all Landsat, a Landsat candidate that
\* contains the point is returned, whatever Sentinel candidates lie elsewhere.
C4_ContainmentBeforeFamily ==
    ( /\ pc \in {"returned", "raised"}
      /\ Containing # {}
      /\ \A s \in Containing : Scene[s].platform \notin SentinelFamily )
    => ( /\ pc = "returned"
         /\ best_item \in Containing
         /\ item_platform = Scene[best_item].platform
         /\ item_platform \notin SentinelFamily )

\* a call that returned a Landsat scene in the presence of a Sentinel
\* candidate whose bounding box does not contain the point
C4_Witness ==
    /\ pc = "returned"
    /\ best_item = "L8_new"
    /\ "S2B_edge" \in Candidates
    /\ ~PointInScene("S2B_edge", row)

\* C5: select_best_image is total: with no candidate, or with none that
\* contains the point, it returns (nan, nan, nan) and raises nothing.
C5_Total ==
    (pc \in {"returned", "raised"} /\ Containing = {})
    => ( /\ pc = "returned"
         /\ best_item = nan
         /\ item_platform = nan
         /\ item_date = nan )

\* C6: a sample whose file exists when it is processed is neither searched
\* for nor fetched, its file and the failure list are left as they were, and
\* it is recorded in paths_dict.
C6_CacheHit ==
    /\ [][ ( /\ pc = "for"
             /\ idx < Len(locations_to_get)
             /\ locations_to_get[idx + 1].uid \in DOMAIN store )
           => ( /\ pc' = "for"
                /\ idx' = idx + 1
                /\ store' = store
                /\ errored_ids' = errored_ids
                /\ hist'.searched = hist.searched
                /\ hist'.fetched = hist.fetched
                /\ locations_to_get[idx + 1].uid \in DOMAIN paths_dict' ) ]_vars
    /\ [](\A u \in Uids :
            (Visited(u) /\ u \in DOMAIN hist.store0)
            => ( /\ u \notin hist.searched
                 /\ u \notin hist.fetched
                 /\ u \notin hist.written
                 /\ u \in DOMAIN store
                 /\ store[u] = hist.store0[u]
                 /\ \A i \in 1..Len(errored_ids) : errored_ids[i] # u
                 /\ u \in DOMAIN paths_dict
                 /\ hist.outcome[u] = "Skipped" ))

\* a cache hit on the second sample, after the first one was searched for
C6_Witness ==
    /\ idx = 2
    /\ hist.outcome[locations_to_get[2].uid] = "Skipped"
    /\ hist.searched = {locations_to_get[1].uid}

\* C7: a second run over the same samples on the store the first run left
\* makes no search and no fetch, leaves the store as it was, and skips every
\* sample.
C7_SecondRunAllSkipped ==
    (mode = "rerun" /\ pc = "done")
    => ( /\ hist.searched = {}
         /\ hist.fetched = {}
         /\ store = hist.store0
         /\ \A u \in Uids : hist.outcome[u] = "Skipped" )

\* C7, amended: in a second run on the store the first run left, every
\* sample the first run persisted or skipped is skipped, without search or
\* fetch and with its file unchanged; the samples the first run failed are
\* processed again; when the first run failed none, the second run makes no
\* search and no fetch and leaves the store as it was.
C7_SecondRunSkipsSaved ==
    mode = "rerun" =>
        /\ \A u \in Uids :
             (Visited(u) /\ hist.first.outcome[u] \in {"Persisted", "Skipped"})
             => ( /\ hist.outcome[u] = "Skipped"
                  /\ u \notin hist.searched
                  /\ u \notin hist.fetched
                  /\ u \in DOMAIN store
                  /\ store[u] = hist.store0[u] )
        /\ \A u \in Uids :
             (Finished(u) /\ hist.first.outcome[u] = "Failed")
             => hist.outcome[u] # "Skipped"
        /\ ( /\ pc = "done"
             /\ \A u \in Uids : hist.first.outcome[u] # "Failed" )
           => ( /\ hist.searched = {}
                /\ hist.fetched = {}
                /\ store = hist.store0
                /\ \A u \in Uids : hist.outcome[u] = "Skipped" )

\* a second run that is over, after a first run that persisted one sample
\* and skipped another
C7_Witness ==
    /\ mode = "rerun"
    /\ pc = "done"
    /\ \E u, v \in Uids : /\ hist.first.outcome[u] = "Persisted"
                          /\ hist.first.outcome[v] = "Skipped"
    /\ \A u \in Uids : hist.outcome[u] = "Skipped"

\* what is left of the loop: the rows to come, then the statements to come
\* in the current iteration
PcRank ==
    CASE pc = "query"  -> 4
      [] pc = "select" -> 3
      [] pc = "save"   -> 2
      [] pc = "check"  -> 1
      [] pc = "for"    -> 0
      [] OTHER         -> -1
Rank == 5 * (Len(locations_to_get) - idx) + PcRank

\* C8: whatever fails for whichever sample, the loop visits every sample,
\* ends without raising, and then len(paths_dict) + len(errored_ids) is the
\* number of samples.  Termination: no exception leaves the cell, a step is
\* possible until the loop is over, and every step brings its end nearer.
C8_EverySampleAccounted ==
    /\ [](pc # "raised")
    /\ [](pc # "done" => ENABLED Next)
    /\ [][Rank' < Rank]_vars
    /\ [](pc = "done" =>
            /\ \A u \in Uids : Visited(u)
            /\ Cardinality(DOMAIN paths_dict) + Len(errored_ids)
                 = Len(locations_to_get))

\* the loop is over with a failed sample and a saved one
C8_Witness ==
    /\ pc = "done"
    /\ Len(errored_ids) > 0
    /\ DOMAIN paths_dict # {}
    /\ hist.written # {}

\* C9: an extracted array that is all zero is never saved: its sample is
\* Failed, and every file the loop wrote has a pixel value that is not zero.
C9_NoBlackImageSaved ==
    /\ \A u \in Uids :
         (Finished(u) /\ hist.extracted[u] # <<>> /\ AllZero(hist.extracted[u]))
         => (hist.outcome[u] = "Failed" /\ u \notin hist.written)
    /\ \A u \in hist.written :
         u \in DOMAIN store /\ ~AllZero(store[u])

\* a sample that failed on an all-zero array, beside a sample that was saved
C9_Witness ==
    /\ \E u \in Uids : /\ hist.extracted[u] # <<>>
                       /\ AllZero(hist.extracted[u])
                       /\ hist.outcome[u] = "Failed"
    /\ hist.written # {}

\* C10: processed in another order with the same responses for each sample,
\* every sample gets the same outcome and the same source scene.
C10_OrderIndependent ==
    (mode = "reorder" /\ pc = "done")
    => \A u \in Uids :
         /\ hist.outcome[u] = hist.first.outcome[u]
         /\ hist.source[u] = hist.first.source[u]

\* what the cell has recorded about sample u in a run: its entry of
\* paths_dict and its occurrences in errored_ids
Recorded(paths, errored, u) ==
    [path |-> IF u \in DOMAIN paths THEN paths[u] ELSE "none",
     errored |-> Cardinality({i \in 1..Len(errored) : errored[i] = u})]

\* C11: after a run the recorded state (paths_dict, errored_ids) gives every
\* sample exactly one of Persisted, Skipped, Failed, Skipped exactly for the
\* samples whose file existed before: the failed ones are those of
\* errored_ids, the others those of paths_dict, and what is recorded for a
\* sample tells a skipped sample from a persisted one (two runs that record
\* the same for a sample gave it the same outcome).
C11_OutcomeRecorded ==
    pc = "done" =>
        /\ \A u \in Uids :
             /\ hist.outcome[u] \in {"Persisted", "Skipped", "Failed"}
             /\ hist.outcome[u] = "Failed"
                  <=> Recorded(paths_dict, errored_ids, u).errored = 1
             /\ hist.outcome[u] # "Failed"
                  <=> ( /\ u \in DOMAIN paths_dict
                        /\ Recorded(paths_dict, errored_ids, u).errored = 0 )
             /\ hist.outcome[u] = "Skipped" <=> u \in DOMAIN hist.store0
        /\ mode = "rerun" =>
             \A u \in Uids :
                 Recorded(paths_dict, errored_ids, u)
                     = Recorded(hist.first.paths, hist.first.errored, u)
                 => hist.outcome[u] = hist.first.outcome[u]

\* the all-black pictures among the files
BlackFiles(files) ==
    {n \in DOMAIN files : files[n] # ds_store_bytes /\ AllZero(files[n])}

\* C12: the scrub (list the images, collect the all-black ones, delete
\* them) run twice in succession completes both times, and the second time
\* it removes no file.
C12_ScrubIdempotent ==
    /\ (hist.scrubs \in {1, 2} => pc # "raised")
    /\ (hist.scrubs = 2 /\ pc = "scrubbed")
         => (hist.removed = <<>> /\ store = hist.before)

\* C13: after a scrub pass the files deleted are exactly the images whose
\* pixels are all zero: no all-black image is left, every other file is
\* there as it was, and as many files were removed as black images found.
C13_ScrubRemovesExactlyBlack ==
    (pc = "scrubbed") =>
        /\ DOMAIN hist.before \ DOMAIN store = BlackFiles(hist.before)
        /\ BlackFiles(store) = {}
        /\ \A n \in DOMAIN hist.before \ BlackFiles(hist.before) :
             n \in DOMAIN store /\ store[n] = hist.before[n]
        /\ DOMAIN store \subseteq DOMAIN hist.before
        /\ Len(hist.removed) = Len(black_pngs)
        /\ Len(black_pngs) = Cardinality(BlackFiles(hist.before))
        /\ {black_pngs[k] : k \in 1..Len(black_pngs)} = BlackFiles(hist.before)

\* a first pass that removed an all-black file and left a picture
C13_Witness ==
    /\ pc = "scrubbed"
    /\ hist.scrubs = 1
    /\ Len(hist.removed) = 1
    /\ \E n \in DOMAIN store : n # DS_Store /\ ~AllZero(store[n])

\* a call of fn is over
Called(fn) == call.fn = fn /\ pc \in {"returned", "raised"}

\* C14: for every date d and every lookback n >= 0, get_date_range(d, n)
\* returns "start/end" with end = d and end - start = n days, so start <= end.
C14_DateRange ==
    Called("get_date_range") =>
        /\ pc = "returned"
        /\ LET start == to_datetime(call.result.value[1])
               end == to_datetime(call.result.value[2])
           IN  /\ end = call.args[1]
               /\ end - start = call.args[2]
               /\ start <= end

\* the call of the acquisition cell for a sample dated 31: 15 days back
C14_Witness ==
    /\ Called("get_date_range")
    /\ call.args = <<31, 15>>
    /\ call.result.value = <<"16", "31">>

ValidLatitude(lat) == -90 * 111 <= lat /\ lat <= 90 * 111
ValidLongitude(long) == -180 * 111 <= long /\ long <= 180 * 111

\* C15: for every latitude in [-90, 90], longitude in [-180, 180] and
\* positive radius, get_bounding_box returns [min_long, min_lat, max_long,
\* max_lat] with min_long < max_long and min_lat < max_lat.
C15_BoxOrdered ==
    ( /\ Called("get_bounding_box")
      /\ ValidLatitude(call.args[1])
      /\ ValidLongitude(call.args[2])
      /\ call.args[3] > 0 )
    => ( /\ pc = "returned"
         /\ call.result.value[1] < call.result.value[3]
         /\ call.result.value[2] < call.result.value[4] )

\* C16: get_bounding_box raises exactly when the latitude is outside
\* [-90, 90], the longitude is outside [-180, 180], or the radius is zero or
\* negative.
C16_BoxErrors ==
    Called("get_bounding_box") =>
        ( pc = "raised"
          <=> ( \/ ~ValidLatitude(call.args[1])
                \/ ~ValidLongitude(call.args[2])
                \/ call.args[3] <= 0 ) )

\* C17: the error of an invalid geometry (here the ValueError that
\* get_bounding_box raises for a bad latitude) is the only error that aborts
\* the run and is never turned into a Failed outcome; every other error
\* raised for a sample is caught, the sample recorded as Failed, and the loop
\* goes on.
C17_ErrorPolicy ==
    /\ \A u \in Uids :
         hist.error[u] = "ValueError"
         => (hist.outcome[u] # "Failed" /\ pc = "raised")
    /\ pc = "raised" => hist.error[row.uid] = "ValueError"
    /\ \A u \in Uids :
         hist.error[u] \notin {"none", "ValueError"}
         => ( /\ hist.outcome[u] = "Failed"
              /\ \E k \in 1..Len(errored_ids) : errored_ids[k] = u
              /\ pc # "raised" )

\* a file of the store is whole: the extracted raster, all of it
WholeFile(n) ==
    \/ n \in DOMAIN hist.store0 /\ store[n] = hist.store0[n]
    \/ n \in Uids /\ store[n] = transpose_hwc(hist.extracted[n])

\* C18: when a stop request arrives while a sample is being extracted or
\* saved, the extraction of that sample is not cut short by it and its
\* raster is saved whole, no further sample is started afterwards, and the
\* store never holds a half-written file.
C18_Cancellation ==
    /\ hist.stopped.at \in {"save", "check"} =>
         /\ hist.error[hist.stopped.uid] # "KeyboardInterrupt"
         /\ idx = hist.stopped.idx
    /\ \A n \in DOMAIN store : WholeFile(n)

\* the call returned a scene
ReturnedScene == pc = "returned" /\ best_item # nan

\* C19: containment is strict: select_best_image returns a scene if and only
\* if some candidate has min_lat < latitude < max_lat and min_long <
\* longitude < max_long, and the scene returned is such a candidate; a
\* candidate with the point on the edge of its bounding box is not selected.
C19_StrictContainment ==
    pc \in {"returned", "raised"} =>
        /\ ReturnedScene <=> Containing # {}
        /\ ReturnedScene => best_item \in Containing

\* the only candidate has the point on the western edge of its bounding
\* box: the result is empty
C19_Witness ==
    /\ pc = "returned"
    /\ items = <<"S2B_edge">>
    /\ row.longitude = Scene["S2B_edge"].bbox[1]
    /\ Scene["S2B_edge"].bbox[2] < row.latitude
    /\ row.latitude < Scene["S2B_edge"].bbox[4]
    /\ best_item = nan

\* what a caller sees of a result: the exception, the empty result, or the
\* platform family and the capture date of the scene
Summary(r) ==
    IF r.raised THEN <<"raised">>
    ELSE IF r.value[1] = nan THEN <<"empty">>
    ELSE <<r.value[2] \in SentinelFamily, r.value[3]>>

\* C20: select_best_image does not rely on the order of the candidates: on
\* every permutation of the candidate sequence the result has the same
\* platform family and the same capture date, and is empty for one if and
\* only if it is empty for the other.
C20_PermutationInvariant ==
    pc \in {"returned", "raised"} =>
        \A q \in Orderings(items) :
            \A r \in select_best_image(q, row.date, row.latitude, row.longitude) :
                Summary(r) = IF pc = "raised" THEN <<"raised">>
                             ELSE Summary(Ok(<<best_item, item_platform, item_date>>))

\* two Sentinel candidates of the same day, the second one returned
C20_Witness ==
    /\ pc = "returned"
    /\ items = <<"S2A_tie", "S2B_tie">>
    /\ best_item = "S2B_tie"

\* C21: when no candidate was captured after the target date, the scene
\* select_best_image returns is one of the candidates left by the containment
\* and family filters, and none of them is closer to the target date.
C21_MostRecent ==
    ( /\ ReturnedScene
      /\ \A s \in Candidates : Scene[s].datetime.day <= row.date )
    => ( /\ best_item \in Remaining
         /\ item_date = ToString(Scene[best_item].datetime.day)
         /\ \A t \in Remaining :
              row.date - Scene[best_item].datetime.day
                  <= row.date - Scene[t].datetime.day )

\* two Landsat candidates that contain the point, neither after the target
\* date: the later one is returned
C21_Witness ==
    /\ pc = "returned"
    /\ best_item = "L9_late"
    /\ "L8_new" \in Remaining
    /\ Scene["L9_late"].datetime.day <= row.date

\* C22: at every point of the acquisition loop, errored_ids holds exactly
\* the uids of the samples already reached whose processing raised, each
\* once, none of them a key of paths_dict; and a uid is a key of paths_dict
\* only if its file is in the store at that moment.
C22_FailureAttribution ==
    /\ \A u \in Uids :
         /\ Recorded(paths_dict, errored_ids, u).errored
              = IF hist.error[u] # "none" THEN 1 ELSE 0
         /\ hist.error[u] # "none" => Visited(u)
         /\ Recorded(paths_dict, errored_ids, u).errored > 0
              => u \notin DOMAIN paths_dict
    /\ \A k \in 1..Len(errored_ids) : errored_ids[k] \in Uids
    /\ \A u \in DOMAIN paths_dict : u \in Uids /\ exists(image_pth(u))

\* between two samples, the first one failed and the second one saved
C22_Witness ==
    /\ pc = "for"
    /\ idx = 2
    /\ errored_ids = <<locations_to_get[1].uid>>
    /\ locations_to_get[2].uid \in DOMAIN paths_dict
    /\ locations_to_get[2].uid \in hist.written

\* C23: the test sum(array.flatten()) == 0 is true exactly when every value
\* of the array is zero, before saving and in the scan: the sum of a raster
\* with a value that is not zero is not zero, so no such raster is rejected
\* by the loop and no such file is deleted by the scrub.
C23_SumTestExact ==
    /\ pc = "check" => (is_black(image_array) <=> AllZero(image_array))
    /\ pc = "listed" =>
         \A k \in 1..Len(imgs) :
            Image_open(store, imgs[k]).raised
            \/ (is_black(store[imgs[k]]) <=> AllZero(store[imgs[k]]))
    /\ \A u \in Uids :
         (Finished(u) /\ hist.extracted[u] # <<>> /\ ~AllZero(hist.extracted[u]))
         => hist.outcome[u] = "Persisted"
    /\ pc = "scrubbed" =>
         \A k \in 1..Len(hist.removed) : AllZero(hist.before[hist.removed[k]])

\* C24: with the cells run in order (list, write c20p-metadata.csv, scan,
\* remove), every uid written to the csv still has its file <uid>.png in the
\* folder once the all-black files are removed.
C24_CsvListsOnlyKeptImages ==
    (pc = "scrubbed") =>
        \A k \in 1..Len(saved) : image_pth(saved[k].uid) \in DOMAIN store

---------------------------------------------------------------------------
(* make-predictions.ipynb: the training loop with checkpointing and early *)
(* stopping                                                               *)

num_epochs == 10
patience == 5

MaxLoss == 2

\* a float: a number, or nan
float(v) == [type |-> "float", isnan |-> FALSE, value |-> v]
float_nan == [type |-> "float", isnan |-> TRUE, value |-> 0]

\* avg_val_loss = val_loss/val_count over the batches of val_loader: any
\* float, nan when a batch loss is nan (a model whose weights diverged)
ValLosses == {float(v) : v \in 1..MaxLoss} \cup {float_nan}

\* a > b on floats: false as soon as one of them is nan
float_gt(a, b) == ~a.isnan /\ ~b.isnan /\ a.value > b.value

\* model.state_dict() at the end of an epoch
state_dict(e) == [type |-> "state_dict", epoch |-> e]

\* best_loss = None; counter = 0
TrainInit ==
    /\ locations_to_get = <<>>
    /\ idx = 0
    /\ row = metadata[UidOrder[1]]
    /\ pc = "train"
    /\ store = <<>>
    /\ paths_dict = <<>>
    /\ errored_ids = <<>>
    /\ items = <<>>
    /\ best_item = Unbound
    /\ item_platform = Unbound
    /\ item_date = Unbound
    /\ image_array = <<>>
    /\ mode = "train"
    /\ imgs = Unbound
    /\ black_pngs = Unbound
    /\ call = NoCall
    /\ numpy \in NumpyReleases
    /\ saved = Unbound
    /\ best_loss = None
    /\ counter = 0
    /\ epoch = Unbound
    /\ checkpoint = None
    /\ hist = NewHist(NoFirst, <<>>)

\* one iteration of `for epoch in range(num_epochs)`: the training loop, the
\* validation loop, then CHECKPOINTING AND EARLY STOPPING
TrainEpoch ==
    /\ pc = "train"
    /\ Len(hist.val_losses) < num_epochs
    /\ epoch' = Len(hist.val_losses)
    /\ \E avg_val_loss \in ValLosses :
         /\ hist' = [hist EXCEPT !.val_losses = Append(@, avg_val_loss)]
         /\ IF best_loss = None
            THEN /\ best_loss' = avg_val_loss
                 /\ checkpoint' = state_dict(epoch')
                 /\ pc' = "train"
                 /\ UNCHANGED counter
            ELSE IF float_gt(avg_val_loss, best_loss)
            THEN /\ counter' = counter + 1
                 /\ pc' = IF counter' >= patience THEN "stopped" ELSE "train"
                 /\ UNCHANGED <<best_loss, checkpoint>>
            ELSE /\ best_loss' = avg_val_loss
                 /\ checkpoint' = state_dict(epoch')
                 /\ counter' = 0
                 /\ pc' = "train"
    /\ UNCHANGED <<locations_to_get, idx, row, store, paths_dict, errored_ids, items,
                   best_item, item_platform, item_date, image_array, mode, imgs,
                   black_pngs, call, numpy, saved>>

\* range(num_epochs) is exhausted
EndTraining ==
    /\ pc = "train"
    /\ Len(hist.val_losses) = num_epochs
    /\ pc' = "trained"
    /\ UNCHANGED <<locations_to_get, idx, row, store, paths_dict, errored_ids, items,
                   best_item, item_platform, item_date, image_array, mode, imgs,
                   black_pngs, call, numpy, saved, train_vars, hist>>

TrainNext == TrainEpoch \/ EndTraining

TrainSpec == TrainInit /\ [][TrainNext]_vars

\* the epochs (from 1) whose validation loss is a number
NumberEpochs == {k \in 1..Len(hist.val_losses) : ~hist.val_losses[k].isnan}

\* the least validation loss among them
MinValLoss == Min({hist.val_losses[k].value : k \in NumberEpochs})

\* the latest epoch that attained it
LastBestEpoch == Max({k \in NumberEpochs : hist.val_losses[k].value = MinValLoss})

\* C25: after every completed epoch best_loss is the least validation loss
\* of the completed epochs and checkpoint.pt holds the model of the latest
\* epoch that attained it; counter is the number of epochs since that one,
\* each with a loss strictly greater than best_loss; the loop stops at the
\* first epoch where counter reaches patience, or after num_epochs epochs.
C25_EarlyStopping ==
    (mode = "train" /\ NumberEpochs # {}) =>
        /\ best_loss = float(MinValLoss)
        /\ checkpoint = state_dict(LastBestEpoch - 1)
        /\ counter = Len(hist.val_losses) - LastBestEpoch
        /\ \A k \in (LastBestEpoch + 1)..Len(hist.val_losses) :
              float_gt(hist.val_losses[k], best_loss)
        /\ (pc = "stopped") <=> (counter >= patience)
        /\ (pc = "trained") => Len(hist.val_losses) = num_epochs
        /\ Len(hist.val_losses) <= num_epochs

=============================================================================
